---------------------------- MODULE Spec2Model ----------------------------
(***************************************************************************)
(* A model of MudServer (src/src/mudserver.py): the connection registry,   *)
(* the double-buffered event lists, the Telnet framing parser and the      *)
(* sending operations, together with the sockets and the clock they use.   *)
(***************************************************************************)
EXTENDS Integers, Sequences, FiniteSets, TLC

(***************************************************************************)
(* Bounds of the model.                                                    *)
(***************************************************************************)
\* number of connections the environment ever opens
MaxConn == 2
\* number of connections open at the same time
MaxLive == 1
\* last value of the clock (seconds)
MaxTime == 5

(***************************************************************************)
(* Program constants.                                                      *)
(***************************************************************************)
_EVENT_NEW_PLAYER == 1
_EVENT_PLAYER_LEFT == 2
_EVENT_COMMAND == 3

_READ_STATE_NORMAL == 1
_READ_STATE_COMMAND == 2
_READ_STATE_SUBNEG == 3
_READ_NAWS == 4

_ECHO == 1
_NAWS == 31
_MSSP == 70
_MXP == 91
_GMCP == 201

_MSSP_VAR == 1
_MSSP_VAL == 2

_TN_IAC == 255
_TN_DONT == 254
_TN_DO == 253
_TN_WONT == 252
_TN_WILL == 251
_TN_SUB_START == 250
_TN_SUB_END == 240

\* seconds between two liveness probes of a client
ProbeInterval == 5
\* width of the chunks send_message cuts a message into
ChunkSize == 80
\* the newline and backspace characters of the normal read state
Newline == 10
Backspace == 8

(***************************************************************************)
(* Values standing for Python's "attribute not set" and None.              *)
(***************************************************************************)
\* MXP_ENABLED / GMCP_ENABLED are "unset" until a negotiation assigns them
FlagUnset == "unset"
FlagOn == "on"
FlagOff == "off"
\* height / width do not exist until a NAWS subnegotiation assigns them
DimUnset == 0
NoMessage == [has |-> FALSE, text |-> <<>>]

VARIABLES
    clients,      \* _clients: id -> _Client
    nextid,       \* _nextid
    events,       \* _events: the visible list
    new_events,   \* _new_events: the pending list
    now,          \* time.time(), in whole seconds
    nconn,        \* connections opened by peers so far (numbered 1..nconn)
    naccepted,    \* connections taken from the listening socket so far
    peer,         \* state of each connection's peer end
    last,         \* the last operation called and how it ended
    sent,         \* what the last operation wrote, in order
    sinceUpdate,  \* history: events enqueued since update() last returned
    newCount,     \* history: NewConnection events enqueued, per id
    leftCount,    \* history: Disconnected events enqueued, per id
    connId,       \* history: the id given to each accepted connection
    platform,     \* sys.platform: "linux" or "esp32"
    script,       \* the bytes a peer is sending to client 0
    pos,          \* how many of them have been read so far
    fed,          \* history: the bytes the last recv returned
    lastMessage,  \* history: what _process_sent_data last returned
    atBegin,      \* history: client 0 when the script started
    cmds,         \* history: Command events published during the script
    replies,      \* history: what was written to client 0 during the script
    args,         \* the arguments the caller passes to send_message
    closed,       \* the sockets the server has closed
    halted        \* history: shutdown() has been called

\* the variables of the byte-stream, wrapping and shutdown scenarios
pvars == <<platform, script, pos, fed, lastMessage, atBegin, cmds,
           replies, args, closed, halted>>

vars == <<clients, nextid, events, new_events, now, nconn, naccepted, peer,
          last, sent, sinceUpdate, newCount, leftCount, connId, platform,
          script, pos, fed, lastMessage, atBegin, cmds, replies, args,
          closed, halted>>

Ids == 0 .. MaxConn
Conns == 1 .. MaxConn
\* _listen_socket, among the sockets numbered from 1
ListenSocket == 0

(***************************************************************************)
(* Sockets.  A peer is "open", "stalled" (it no longer reads: sends fail,  *)
(* its data still arrives), "fin" (it closed: reads return no bytes) or    *)
(* "reset" (reads and sends raise).                                        *)
(***************************************************************************)
SendOk(c) == peer[c] \in {"open", "fin"}

(***************************************************************************)
(* _Client                                                                 *)
(***************************************************************************)
NewClient(c, t) ==
    [sock |-> c, buffer |-> <<>>, lastcheck |-> t, color_enabled |-> TRUE,
     MXP |-> FlagUnset, GMCP |-> FlagUnset,
     height |-> DimUnset, width |-> DimUnset]

Event(type, id) == [type |-> type, id |-> id, command |-> <<>>, params |-> <<>>]
CommandEvent(id, command, params) ==
    [type |-> _EVENT_COMMAND, id |-> id, command |-> command, params |-> params]

(***************************************************************************)
(* Text helpers: str(int), struct.unpack('>hh').                           *)
(***************************************************************************)
RECURSIVE Dec(_)
Dec(n) == IF n < 10 THEN <<48 + n>> ELSE Dec(n \div 10) \o <<48 + (n % 10)>>

\* the slip of unpacking with the unsigned format '>HH'
Signed16AsUnsigned(hi, lo) ==
    hi * 256 + lo

Signed16(hi, lo) ==
    LET u == hi * 256 + lo IN IF u >= 32768 THEN u - 65536 ELSE u

(***************************************************************************)
(* _send_mssp: the bytes of the status reply.                              *)
(***************************************************************************)
\* the slip of not counting the client that asked
MsspReplyWithoutSelf(players, uptime) ==
    <<_TN_IAC, _TN_SUB_START, _MSSP, _MSSP_VAR>>
    \o <<80, 76, 65, 89, 69, 82, 83>> \o <<_MSSP_VAL>> \o Dec(players - 1)
    \o <<_MSSP_VAR>> \o <<85, 80, 84, 73, 77, 69>> \o <<_MSSP_VAL>>
    \o Dec(uptime) \o <<46, 48>>
    \o <<_MSSP_VAR>> \o <<78, 65, 77, 69>> \o <<_MSSP_VAL>>
    \o <<87, 101, 101, 77, 117, 100>>
    \o <<_TN_IAC, _TN_SUB_END>>

MsspReply(players, uptime) ==
    <<_TN_IAC, _TN_SUB_START, _MSSP, _MSSP_VAR>>
    \o <<80, 76, 65, 89, 69, 82, 83>> \o <<_MSSP_VAL>> \o Dec(players)
    \o <<_MSSP_VAR>> \o <<85, 80, 84, 73, 77, 69>> \o <<_MSSP_VAL>>
    \o Dec(uptime) \o <<46, 48>>
    \o <<_MSSP_VAR>> \o <<78, 65, 77, 69>> \o <<_MSSP_VAL>>
    \o <<87, 101, 101, 77, 117, 100>>
    \o <<_TN_IAC, _TN_SUB_END>>

\* the slip of naming the GMCP option in the enabling subnegotiation
EnableSequenceNamingGmcp == <<_TN_IAC, _TN_SUB_START, _GMCP, _TN_IAC, _TN_SUB_END>>

EnableSequence == <<_TN_IAC, _TN_SUB_START, _MXP, _TN_IAC, _TN_SUB_END>>

(***************************************************************************)
(* _process_sent_data.  p is the state of one call: the read state, the    *)
(* remembered verb, the option buffer, the message found so far, the       *)
(* client object, what was sent and whether sendall raised.                *)
(***************************************************************************)
\* the slip of starting every call with an empty line buffer
ParserStartClearingBuffer(cl) ==
    [state |-> _READ_STATE_NORMAL, option_support |-> 0,
     option_data |-> <<>>, option_state |-> 0,
     message |-> NoMessage, cl |-> [cl EXCEPT !.buffer = <<>>],
     sent |-> <<>>, raised |-> FALSE]

ParserStart(cl) ==
    [state |-> _READ_STATE_NORMAL, option_support |-> 0,
     option_data |-> <<>>, option_state |-> 0,
     message |-> NoMessage, cl |-> cl, sent |-> <<>>, raised |-> FALSE]

\* client.socket.sendall(data) inside the parser
ParserSend(p, data, sendOk) ==
    IF sendOk THEN [p EXCEPT !.sent = Append(@, data)]
    ELSE [p EXCEPT !.raised = TRUE]

\* the slip of erasing the whole line buffer at a backspace
NormalByteErasingAll(p, c) ==
    IF c = _TN_IAC THEN [p EXCEPT !.state = _READ_STATE_COMMAND]
    ELSE IF c = Newline
    THEN [p EXCEPT !.message = [has |-> TRUE, text |-> p.cl.buffer],
                   !.cl.buffer = <<>>]
    ELSE IF c = Backspace
    THEN [p EXCEPT !.cl.buffer = <<>>]
    ELSE [p EXCEPT !.cl.buffer = Append(@, c)]

NormalByte(p, c) ==
    IF c = _TN_IAC THEN [p EXCEPT !.state = _READ_STATE_COMMAND]
    ELSE IF c = Newline
    THEN [p EXCEPT !.message = [has |-> TRUE, text |-> p.cl.buffer],
                   !.cl.buffer = <<>>]
    ELSE IF c = Backspace
    THEN [p EXCEPT !.cl.buffer =
              IF Len(@) = 0 THEN @ ELSE SubSeq(@, 1, Len(@) - 1)]
    ELSE [p EXCEPT !.cl.buffer = Append(@, c)]

\* the slip of enabling the option at WILL as well as at DO
CommandByteEnablingAtWill(p, c, sendOk, players, uptime) ==
    IF c = _TN_SUB_START THEN [p EXCEPT !.state = _READ_STATE_SUBNEG]
    ELSE IF c \in {_TN_WILL, _TN_WONT, _TN_DO, _TN_DONT}
    THEN [p EXCEPT !.option_support = c, !.state = _READ_STATE_COMMAND]
    ELSE IF c = _MXP
    THEN IF p.option_support \in {_TN_DO, _TN_WILL}
         THEN LET q == ParserSend([p EXCEPT !.cl.MXP = FlagOn],
                                  EnableSequence, sendOk)
              IN IF q.raised THEN q
                 ELSE [q EXCEPT !.state = _READ_STATE_NORMAL]
         ELSE [p EXCEPT !.cl.MXP = FlagOff, !.state = _READ_STATE_NORMAL]
    ELSE IF c = _GMCP
    THEN IF p.option_support \in {_TN_DO, _TN_WILL}
         THEN LET q == ParserSend([p EXCEPT !.cl.GMCP = FlagOn],
                                  EnableSequence, sendOk)
              IN IF q.raised THEN q
                 ELSE [q EXCEPT !.state = _READ_STATE_NORMAL]
         ELSE [p EXCEPT !.cl.GMCP = FlagOff, !.state = _READ_STATE_NORMAL]
    ELSE IF c = _MSSP
    THEN IF p.option_support = _TN_DO
         THEN LET q == ParserSend(p, MsspReply(players, uptime), sendOk)
              IN IF q.raised THEN q
                 ELSE [q EXCEPT !.state = _READ_STATE_NORMAL]
         ELSE [p EXCEPT !.state = _READ_STATE_NORMAL]
    ELSE [p EXCEPT !.state = _READ_STATE_NORMAL]

CommandByte(p, c, sendOk, players, uptime) ==
    IF c = _TN_SUB_START THEN [p EXCEPT !.state = _READ_STATE_SUBNEG]
    ELSE IF c \in {_TN_WILL, _TN_WONT, _TN_DO, _TN_DONT}
    THEN [p EXCEPT !.option_support = c, !.state = _READ_STATE_COMMAND]
    ELSE IF c = _MXP
    THEN IF p.option_support = _TN_DO
         THEN LET q == ParserSend([p EXCEPT !.cl.MXP = FlagOn],
                                  EnableSequence, sendOk)
              IN IF q.raised THEN q
                 ELSE [q EXCEPT !.state = _READ_STATE_NORMAL]
         ELSE [p EXCEPT !.cl.MXP = FlagOff, !.state = _READ_STATE_NORMAL]
    ELSE IF c = _GMCP
    THEN IF p.option_support = _TN_DO
         THEN LET q == ParserSend([p EXCEPT !.cl.GMCP = FlagOn],
                                  EnableSequence, sendOk)
              IN IF q.raised THEN q
                 ELSE [q EXCEPT !.state = _READ_STATE_NORMAL]
         ELSE [p EXCEPT !.cl.GMCP = FlagOff, !.state = _READ_STATE_NORMAL]
    ELSE IF c = _MSSP
    THEN IF p.option_support = _TN_DO
         THEN LET q == ParserSend(p, MsspReply(players, uptime), sendOk)
              IN IF q.raised THEN q
                 ELSE [q EXCEPT !.state = _READ_STATE_NORMAL]
         ELSE [p EXCEPT !.state = _READ_STATE_NORMAL]
    ELSE [p EXCEPT !.state = _READ_STATE_NORMAL]

\* struct.unpack('>hh', option_data) and the two guarded assignments.
\* struct.unpack raises unless the payload is exactly four bytes long;
\* MicroPython's ustruct.unpack raises only when it is shorter than four
\* bytes and otherwise unpacks the first four.  The error is swallowed.
NawsUnpack(cl, data) ==
    IF Len(data) < 4 \/ (platform # "esp32" /\ Len(data) # 4) THEN cl
    ELSE LET height == Signed16(data[1], data[2])
             width == Signed16(data[3], data[4])
         IN [cl EXCEPT !.height = IF height > 0 THEN height ELSE @,
                       !.width = IF width > 0 THEN width ELSE @]

SubnegByte(p, c) ==
    LET p1 == IF c = _TN_SUB_END
              THEN IF p.option_state = _READ_NAWS
                   THEN [p EXCEPT !.cl = NawsUnpack(@, p.option_data),
                                  !.option_state = 0,
                                  !.option_data = <<>>,
                                  !.state = _READ_STATE_NORMAL]
                   ELSE [p EXCEPT !.state = _READ_STATE_NORMAL]
              ELSE p
        p2 == IF c = _NAWS
              THEN [p1 EXCEPT !.option_state = _READ_NAWS,
                              !.option_data = <<>>]
              ELSE p1
    IN IF p2.option_state = _READ_NAWS /\ c # _NAWS /\ c # _TN_IAC
       THEN [p2 EXCEPT !.option_data = Append(@, c)]
       ELSE p2

\* the slip of starting the line afresh after every command byte
ParseByteRestartingLine(p, c, sendOk, players, uptime) ==
    IF p.raised THEN p
    ELSE IF p.state = _READ_STATE_NORMAL THEN NormalByte(p, c)
    ELSE IF p.state = _READ_STATE_COMMAND
    THEN [CommandByte(p, c, sendOk, players, uptime) EXCEPT !.cl.buffer = <<>>]
    ELSE SubnegByte(p, c)

ParseByte(p, c, sendOk, players, uptime) ==
    IF p.raised THEN p
    ELSE IF p.state = _READ_STATE_NORMAL THEN NormalByte(p, c)
    ELSE IF p.state = _READ_STATE_COMMAND
    THEN CommandByte(p, c, sendOk, players, uptime)
    ELSE SubnegByte(p, c)

RECURSIVE ParseFrom(_, _, _, _, _, _)
ParseFrom(p, data, i, sendOk, players, uptime) ==
    IF i > Len(data) THEN p
    ELSE ParseFrom(ParseByte(p, data[i], sendOk, players, uptime),
                   data, i + 1, sendOk, players, uptime)

\* the whole call: the read state starts afresh at every call
_process_sent_data(cl, data, sendOk, players, uptime) ==
    ParseFrom(ParserStart(cl), data, 1, sendOk, players, uptime)


(***************************************************************************)
(* utils.py: the colour table, get_color and multiple_replace.             *)
(***************************************************************************)
\* the names of 'codes', in the order of the dictionary
ColorNames ==
    <<"resetall", "bold", "underline", "blink", "reverse", "boldoff",
      "blinkoff", "underlineoff", "reverseoff", "reset", "black", "red",
      "green", "yellow", "blue", "magenta", "cyan", "white">>

ColorCodes == <<0, 1, 4, 5, 7, 22, 25, 24, 27, 0, 30, 31, 32, 33, 34, 35, 36, 37>>

\* the characters of each colour name
ColorText ==
    <<<<114, 101, 115, 101, 116, 97, 108, 108>>, <<98, 111, 108, 100>>,
      <<117, 110, 100, 101, 114, 108, 105, 110, 101>>,
      <<98, 108, 105, 110, 107>>, <<114, 101, 118, 101, 114, 115, 101>>,
      <<98, 111, 108, 100, 111, 102, 102>>,
      <<98, 108, 105, 110, 107, 111, 102, 102>>,
      <<117, 110, 100, 101, 114, 108, 105, 110, 101, 111, 102, 102>>,
      <<114, 101, 118, 101, 114, 115, 101, 111, 102, 102>>,
      <<114, 101, 115, 101, 116>>, <<98, 108, 97, 99, 107>>,
      <<114, 101, 100>>, <<103, 114, 101, 101, 110>>,
      <<121, 101, 108, 108, 111, 119>>, <<98, 108, 117, 101>>,
      <<109, 97, 103, 101, 110, 116, 97>>, <<99, 121, 97, 110>>,
      <<119, 104, 105, 116, 101>>>>

get_color(name) ==
    IF \E k \in 1 .. Len(ColorNames) : ColorNames[k] = name
    THEN LET k == CHOOSE k \in 1 .. Len(ColorNames) : ColorNames[k] = name
         IN <<27, 91>> \o Dec(ColorCodes[k]) \o <<109>>
    ELSE <<>>

IsPrefixAt(text, word, i) ==
    /\ i + Len(word) - 1 <= Len(text)
    /\ \A k \in 1 .. Len(word) : text[i + k - 1] = word[k]

\* str.replace(word, repl): left to right, occurrences do not overlap
RECURSIVE ReplaceFrom(_, _, _, _)
ReplaceFrom(text, word, repl, i) ==
    LET found == {j \in i .. Len(text) : IsPrefixAt(text, word, j)}
    IN IF found = {} THEN SubSeq(text, i, Len(text))
       ELSE LET j == CHOOSE j \in found : \A k \in found : j <= k
            IN SubSeq(text, i, j - 1) \o repl
               \o ReplaceFrom(text, word, repl, j + Len(word))

RECURSIVE ReplaceWords(_, _, _)
ReplaceWords(text, k, color_enabled) ==
    IF k > Len(ColorNames) THEN text
    ELSE ReplaceWords(
             ReplaceFrom(text, <<37>> \o ColorText[k],
                         IF color_enabled THEN get_color(ColorNames[k])
                         ELSE <<>>, 1),
             k + 1, color_enabled)

multiple_replace(text, color_enabled) == ReplaceWords(text, 1, color_enabled)

(***************************************************************************)
(* The text of a command: str.strip, str.split(" ", 1), str.lower.         *)
(***************************************************************************)
Whitespace == {9, 10, 11, 12, 13, 28, 29, 30, 31, 32, 133, 160}

RECURSIVE LStrip(_)
LStrip(t) == IF Len(t) > 0 /\ t[1] \in Whitespace THEN LStrip(Tail(t)) ELSE t

RECURSIVE RStrip(_)
RStrip(t) ==
    IF Len(t) > 0 /\ t[Len(t)] \in Whitespace
    THEN RStrip(SubSeq(t, 1, Len(t) - 1)) ELSE t

Strip(t) == RStrip(LStrip(t))

HasSpace(t) == \E k \in 1 .. Len(t) : t[k] = 32
FirstSpace(t) == CHOOSE k \in 1 .. Len(t) : t[k] = 32 /\ \A j \in 1 .. k - 1 : t[j] # 32

SplitCommand(t) == IF HasSpace(t) THEN SubSeq(t, 1, FirstSpace(t) - 1) ELSE t
SplitParams(t) == IF HasSpace(t) THEN SubSeq(t, FirstSpace(t) + 1, Len(t)) ELSE <<>>

LowerChar(c) ==
    IF c \in 65 .. 90 \/ (c \in 192 .. 222 /\ c # 215) THEN c + 32 ELSE c
Lower(t) == [k \in 1 .. Len(t) |-> LowerChar(t[k])]

(***************************************************************************)
(* The state an operation works on: the server's fields, what it wrote     *)
(* and the exception it is leaving with ("none" while it runs normally).   *)
(***************************************************************************)
Start ==
    [clients |-> clients, nextid |-> nextid, new_events |-> new_events,
     events |-> events, naccepted |-> naccepted, connId |-> connId,
     sent |-> <<>>, raised |-> "none"]

Write(s, c, data) == [s EXCEPT !.sent = Append(@, [sock |-> c, data |-> data])]

Without(f, id) == [x \in DOMAIN f \ {id} |-> f[x]]
With(f, id, v) == [x \in DOMAIN f \cup {id} |-> IF x = id THEN v ELSE f[x]]

RECURSIVE SortedIds(_)
SortedIds(S) ==
    IF S = {} THEN <<>>
    ELSE LET m == CHOOSE x \in S : \A y \in S : x <= y
         IN <<m>> \o SortedIds(S \ {m})

(***************************************************************************)
(* _handle_disconnect                                                      *)
(***************************************************************************)
\* the slip of appending to _events, the list the queries read
HandleDisconnectIntoVisible(s, clid) ==
    IF clid \notin DOMAIN s.clients THEN [s EXCEPT !.raised = "KeyError"]
    ELSE [s EXCEPT !.clients = Without(@, clid),
                   !.events = Append(@, Event(_EVENT_PLAYER_LEFT, clid))]

_handle_disconnect(s, clid) ==
    IF clid \notin DOMAIN s.clients THEN [s EXCEPT !.raised = "KeyError"]
    ELSE [s EXCEPT !.clients = Without(@, clid),
                   !.new_events = Append(@, Event(_EVENT_PLAYER_LEFT, clid))]

(***************************************************************************)
(* _attempt_send                                                           *)
(***************************************************************************)
_attempt_send(s, clid, data) ==
    IF clid \notin DOMAIN s.clients THEN s
    ELSE IF SendOk(s.clients[clid].sock)
    THEN Write(s, s.clients[clid].sock, data)
    ELSE _handle_disconnect(s, clid)

(***************************************************************************)
(* _check_for_new_connections.  The listening socket is readable when a    *)
(* connection waits; the oldest one is accepted.  The client is stored     *)
(* before the four negotiation requests are written, and nothing catches   *)
(* an error of those writes.                                               *)
(***************************************************************************)
NegotiationRequests ==
    << <<_TN_IAC, _TN_WILL, _MSSP>>, <<_TN_IAC, _TN_WILL, _GMCP>>,
       <<_TN_IAC, _TN_WILL, _MXP>>, <<_TN_IAC, _TN_DO, _NAWS>> >>

_check_for_new_connections(s) ==
    IF ListenSocket \in closed THEN [s EXCEPT !.raised = "ValueError"]
    ELSE IF s.naccepted >= nconn THEN s
    ELSE LET c == s.naccepted + 1
             s1 == [s EXCEPT !.naccepted = c,
                             !.clients = With(@, s.nextid, NewClient(c, now)),
                             !.connId = Append(@, s.nextid)]
         IN IF ~SendOk(c) THEN [s1 EXCEPT !.raised = "OSError"]
            ELSE [s1 EXCEPT
                     !.sent = @ \o [k \in 1 .. 4 |->
                                      [sock |-> c, data |-> NegotiationRequests[k]]],
                     !.new_events = Append(@, Event(_EVENT_NEW_PLAYER, s.nextid)),
                     !.nextid = @ + 1]

(***************************************************************************)
(* _check_for_disconnected: the loop over list(self._clients.items()).     *)
(***************************************************************************)
\* the slip of probing only after more than the interval has passed
ProbeOneStrictlyLater(s, id) ==
    IF now - s.clients[id].lastcheck <= ProbeInterval THEN s
    ELSE LET s1 == _attempt_send(s, id, <<0>>)
         IN IF s1.raised = "none" /\ id \in DOMAIN s1.clients
            THEN [s1 EXCEPT !.clients[id].lastcheck = now]
            ELSE s1

ProbeOne(s, id) ==
    IF now - s.clients[id].lastcheck < ProbeInterval THEN s
    ELSE LET s1 == _attempt_send(s, id, <<0>>)
         IN IF s1.raised = "none" /\ id \in DOMAIN s1.clients
            THEN [s1 EXCEPT !.clients[id].lastcheck = now]
            ELSE s1

RECURSIVE ProbeFrom(_, _, _)
ProbeFrom(s, ids, i) ==
    IF i > Len(ids) \/ s.raised # "none" THEN s
    ELSE ProbeFrom(ProbeOne(s, ids[i]), ids, i + 1)

_check_for_disconnected(s) ==
    IF s.raised # "none" THEN s
    ELSE ProbeFrom(s, SortedIds(DOMAIN s.clients), 1)

(***************************************************************************)
(* _check_for_messages.  rd[id] is what arrived for client id since the    *)
(* last read: no bytes means its socket is not readable, unless the peer   *)
(* closed (recv returns no bytes) or reset the connection (recv raises).   *)
(***************************************************************************)
Truthy(message) == message.has /\ message.text # <<>>

ReadOne(s, id, data) ==
    LET cl == s.clients[id]
        c == cl.sock
    IN IF peer[c] = "reset" THEN _handle_disconnect(s, id)
       ELSE IF peer[c] # "fin" /\ data = <<>> THEN s
       ELSE LET p == _process_sent_data(cl, IF peer[c] = "fin" THEN <<>> ELSE data,
                                        SendOk(c), Cardinality(DOMAIN s.clients), now)
                s1 == [s EXCEPT !.clients[id] = p.cl,
                                !.sent = @ \o [k \in 1 .. Len(p.sent) |->
                                                 [sock |-> c, data |-> p.sent[k]]]]
            IN IF p.raised THEN _handle_disconnect(s1, id)
               ELSE IF Truthy(p.message)
               THEN LET message == Strip(p.message.text)
                    IN [s1 EXCEPT !.new_events =
                           Append(@, CommandEvent(id, Lower(SplitCommand(message)),
                                                  SplitParams(message)))]
               ELSE s1

RECURSIVE ReadFrom(_, _, _, _)
ReadFrom(s, ids, i, rd) ==
    IF i > Len(ids) \/ s.raised # "none" THEN s
    ELSE ReadFrom(ReadOne(s, ids[i], rd[ids[i]]), ids, i + 1, rd)

_check_for_messages(s, rd) ==
    IF s.raised # "none" THEN s
    ELSE ReadFrom(s, SortedIds(DOMAIN s.clients), 1, rd)

(***************************************************************************)
(* update                                                                  *)
(***************************************************************************)
\* the slip of reading the clients before probing them
UpdateChecksReadingFirst(s, rd) ==
    _check_for_disconnected(_check_for_messages(_check_for_new_connections(s), rd))

UpdateChecks(s, rd) ==
    _check_for_messages(_check_for_disconnected(_check_for_new_connections(s)), rd)

\* the slip of extending the visible list instead of replacing it
PublishExtending(s) ==
    IF s.raised # "none" THEN s
    ELSE [s EXCEPT !.events = @ \o s.new_events, !.new_events = <<>>]

\* the last two statements of update, reached when no check raised
Publish(s) ==
    IF s.raised # "none" THEN s
    ELSE [s EXCEPT !.events = s.new_events, !.new_events = <<>>]

update(s, rd) == Publish(UpdateChecks(s, rd))

(***************************************************************************)
(* get_new_players, get_disconnected_players, get_commands                 *)
(***************************************************************************)
get_new_players(evs) ==
    LET ix == SelectSeq([k \in 1 .. Len(evs) |-> k],
                        LAMBDA k : evs[k].type = _EVENT_NEW_PLAYER)
    IN [k \in 1 .. Len(ix) |-> evs[ix[k]].id]

get_disconnected_players(evs) ==
    LET ix == SelectSeq([k \in 1 .. Len(evs) |-> k],
                        LAMBDA k : evs[k].type = _EVENT_PLAYER_LEFT)
    IN [k \in 1 .. Len(ix) |-> evs[ix[k]].id]

get_commands(evs) ==
    LET ix == SelectSeq([k \in 1 .. Len(evs) |-> k],
                        LAMBDA k : evs[k].type = _EVENT_COMMAND)
    IN [k \in 1 .. Len(ix) |->
          <<evs[ix[k]].id, evs[ix[k]].command, evs[ix[k]].params>>]

(***************************************************************************)
(* send_message                                                            *)
(***************************************************************************)
CRLF == <<13, 10>>

\* [message[i:i + 80] for i in range(0, len(message), 80)]
RECURSIVE ChunkLines(_, _)
ChunkLines(message, size) ==
    IF Len(message) = 0 THEN <<>>
    ELSE IF Len(message) <= size THEN <<message>>
    ELSE <<SubSeq(message, 1, size)>>
         \o ChunkLines(SubSeq(message, size + 1, Len(message)), size)

RECURSIVE Join(_, _)
Join(lines, sep) ==
    IF Len(lines) = 0 THEN <<>>
    ELSE IF Len(lines) = 1 THEN lines[1]
    ELSE lines[1] \o sep \o Join(Tail(lines), sep)

\* a colour directive: nothing, one name, or a list of names
NoColor == [list |-> FALSE, names |-> <<>>]
OneColor(name) == [list |-> FALSE, names |-> <<name>>]
ColorList(names) == [list |-> TRUE, names |-> names]
ColorGiven(color) == color.names # <<>>

RECURSIVE ColorPrefix(_)
ColorPrefix(names) ==
    IF names = <<>> THEN <<>>
    ELSE get_color(names[1]) \o ColorPrefix(Tail(names))

send_message(s, to, message, line_ending, color, nowrap) ==
    LET color_enabled == IF to \in DOMAIN s.clients
                         THEN s.clients[to].color_enabled ELSE FALSE
        text == multiple_replace(message, color_enabled)
        lines == IF nowrap THEN <<text>> ELSE ChunkLines(text, ChunkSize)
        body == Join(lines, CRLF) \o line_ending
    IN IF ColorGiven(color) /\ to \notin DOMAIN s.clients
       THEN [s EXCEPT !.raised = "KeyError"]
       ELSE IF ColorGiven(color) /\ s.clients[to].color_enabled
       THEN _attempt_send(s, to, ColorPrefix(color.names) \o body
                                  \o get_color("reset"))
       ELSE IF color_enabled
       THEN _attempt_send(s, to, body \o get_color("reset"))
       ELSE _attempt_send(s, to, body)

(***************************************************************************)
(* gmcp_message, mxp_secure, raw_send: the client is looked up and the     *)
(* bytes are written with nothing catching a KeyError or a socket error.   *)
(***************************************************************************)
raw_send(s, clid, bytes_to_send) ==
    IF clid \notin DOMAIN s.clients THEN [s EXCEPT !.raised = "KeyError"]
    ELSE IF ~SendOk(s.clients[clid].sock) THEN [s EXCEPT !.raised = "OSError"]
    ELSE Write(s, s.clients[clid].sock, bytes_to_send)

gmcp_message(s, clid, message) ==
    raw_send(s, clid, <<_TN_IAC, _TN_SUB_START, _GMCP>> \o message
                      \o <<_TN_IAC, _TN_SUB_END>>)

mxp_secure(s, clid, message, mxp_code) ==
    raw_send(s, clid, <<27, 91>> \o Dec(mxp_code) \o <<122>> \o message
                      \o <<27, 91, 51, 122>> \o CRLF)

(***************************************************************************)
(* send_room.  room stands for the 'Room.Info {...}' text of line 267 and  *)
(* name for the room's name; reading a flag no negotiation has set raises  *)
(* AttributeError.                                                         *)
(***************************************************************************)
send_room(s, clid, room, name) ==
    IF clid \notin DOMAIN s.clients THEN [s EXCEPT !.raised = "KeyError"]
    ELSE IF s.clients[clid].GMCP = FlagUnset
    THEN [s EXCEPT !.raised = "AttributeError"]
    ELSE LET s1 == IF s.clients[clid].GMCP = FlagOn
                   THEN gmcp_message(s, clid, room) ELSE s
         IN IF s1.raised # "none" THEN s1
            ELSE IF s1.clients[clid].MXP = FlagUnset
            THEN [s1 EXCEPT !.raised = "AttributeError"]
            ELSE IF s1.clients[clid].MXP = FlagOn
            THEN mxp_secure(s1, clid, name, 10)
            ELSE s1

(***************************************************************************)
(* send_list, for items that contain no space (the item is then sent as    *)
(* it is in the <send> tag).                                               *)
(***************************************************************************)
SendTag(command, item) ==
    <<60, 115, 101, 110, 100, 32, 34>> \o command \o <<32>> \o item
    \o <<34, 62>> \o item \o <<60, 47, 115, 101, 110, 100, 62>>

send_list(s, clid, list_items, command) ==
    IF clid \notin DOMAIN s.clients THEN [s EXCEPT !.raised = "KeyError"]
    ELSE IF s.clients[clid].MXP = FlagUnset
    THEN [s EXCEPT !.raised = "AttributeError"]
    ELSE IF s.clients[clid].MXP = FlagOn
    THEN mxp_secure(s, clid,
                    Join([k \in 1 .. Len(list_items) |->
                             SendTag(command, list_items[k])], <<44, 32>>), 1)
    ELSE send_message(s, clid, Join(list_items, <<44, 32>>), CRLF, NoColor, FALSE)

(***************************************************************************)
(* remote_echo: every error is swallowed.                                  *)
(***************************************************************************)
remote_echo(s, clid, enable) ==
    IF clid \notin DOMAIN s.clients THEN s
    ELSE IF ~SendOk(s.clients[clid].sock) THEN s
    ELSE Write(s, s.clients[clid].sock,
               IF enable THEN <<_TN_IAC, _TN_WONT, _ECHO>>
               ELSE <<_TN_IAC, _TN_WILL, _ECHO>>)

(***************************************************************************)
(* disconnect_player                                                       *)
(***************************************************************************)
disconnect_player(s, clid) ==
    IF clid \notin DOMAIN s.clients THEN [s EXCEPT !.raised = "KeyError"]
    ELSE _handle_disconnect(s, clid)

(***************************************************************************)
(* Inputs of the operations.                                               *)
(***************************************************************************)
\* what one recv can return: "h\n" and IAC DO MXP
Chunks == { <<104, Newline>>, <<_TN_IAC, _TN_DO, _MXP>> }
ReadChoices == {<<>>} \cup Chunks
\* the text "hi"
Messages == { <<104, 105>> }
Colors == { NoColor, OneColor("red"), ColorList(<<"bold", "yellow">>) }

\* send_message has not been given arguments
NoArgs == [message |-> <<>>, line_ending |-> <<>>, nowrap |-> FALSE]

\* no peer is sending a script; the platform does not matter to the chunks
\* above, which hold no window-size report
NoStream ==
    /\ platform = "linux"
    /\ script = <<>>
    /\ pos = 0
    /\ fed = <<>>
    /\ lastMessage = NoMessage
    /\ atBegin = NewClient(1, 0)
    /\ cmds = <<>>
    /\ replies = <<>>
    /\ args = NoArgs
    /\ closed = {}
    /\ halted = FALSE

\* no call is under way
Idle == [op |-> "idle", known |-> FALSE, raised |-> "none"]

(***************************************************************************)
(* The initial state: the server after __init__, no peer connected yet.    *)
(***************************************************************************)
Init ==
    /\ clients = <<>>
    /\ nextid = 0
    /\ events = <<>>
    /\ new_events = <<>>
    /\ now = 0
    /\ nconn = 0
    /\ naccepted = 0
    /\ peer = [c \in Conns |-> "none"]
    /\ last = Idle
    /\ sent = <<>>
    /\ sinceUpdate = <<>>
    /\ newCount = [i \in Ids |-> 0]
    /\ leftCount = [i \in Ids |-> 0]
    /\ connId = <<>>
    /\ NoStream

(***************************************************************************)
(* The end of every call.  s is the state the call leaves, w the state     *)
(* before update() published (w = s for the other calls).  A socket no     *)
(* client holds any more is of no further interest ("gone").  The history  *)
(* variables count the events the call appended to the pending list.       *)
(***************************************************************************)
Returned(l) == l.op = "update" /\ l.raised = "none"

Appended(w) == SubSeq(w.new_events, Len(new_events) + 1, Len(w.new_events))

CountOf(evs, type, i) ==
    Cardinality({k \in 1 .. Len(evs) : evs[k].type = type /\ evs[k].id = i})

Held(s, c) == \E i \in DOMAIN s.clients : s.clients[i].sock = c

FinishServer(s, w, op, known) ==
    /\ clients' = s.clients
    /\ nextid' = s.nextid
    /\ events' = s.events
    /\ new_events' = s.new_events
    /\ naccepted' = s.naccepted
    /\ connId' = s.connId
    /\ sent' = s.sent
    /\ last' = [op |-> op, known |-> known, raised |-> s.raised]
    /\ peer' = [c \in Conns |->
                  IF c <= s.naccepted /\ ~Held(s, c) THEN "gone" ELSE peer[c]]
    /\ sinceUpdate' = sinceUpdate \o Appended(w)
    /\ newCount' = [i \in Ids |->
                      newCount[i] + CountOf(Appended(w), _EVENT_NEW_PLAYER, i)]
    /\ leftCount' = [i \in Ids |->
                       leftCount[i] + CountOf(Appended(w), _EVENT_PLAYER_LEFT, i)]
    /\ UNCHANGED <<now, nconn>>

Finish(s, w, op, known) ==
    /\ FinishServer(s, w, op, known)
    /\ UNCHANGED pvars

(***************************************************************************)
(* The calls of the game loop.                                             *)
(***************************************************************************)
Update ==
    /\ last = Idle
    /\ \E rd \in [DOMAIN clients \cup {nextid} -> ReadChoices] :
        \E s \in {update(Start, rd)}, w \in {UpdateChecks(Start, rd)} :
            Finish(s, w, "update", FALSE)

GetNewPlayers ==
    /\ last = Idle
    /\ Finish(Start, Start, "get_new_players", FALSE)

GetDisconnectedPlayers ==
    /\ last = Idle
    /\ Finish(Start, Start, "get_disconnected_players", FALSE)

GetCommands ==
    /\ last = Idle
    /\ Finish(Start, Start, "get_commands", FALSE)

SendMessage ==
    /\ last = Idle
    /\ \E to \in Ids, message \in Messages, color \in Colors, nowrap \in BOOLEAN :
        \E s \in {send_message(Start, to, message, CRLF, color, nowrap)} :
            Finish(s, s, "send_message", to \in DOMAIN clients)

SendRoom ==
    /\ last = Idle
    /\ \E clid \in Ids, room \in Messages, name \in Messages :
        \E s \in {send_room(Start, clid, room, name)} :
            Finish(s, s, "send_room", clid \in DOMAIN clients)

SendList ==
    /\ last = Idle
    /\ \E clid \in Ids, item \in Messages :
        \E s \in {send_list(Start, clid, <<item, item>>, <<>>)} :
            Finish(s, s, "send_list", clid \in DOMAIN clients)

GmcpMessage ==
    /\ last = Idle
    /\ \E clid \in Ids, message \in Messages :
        \E s \in {gmcp_message(Start, clid, message)} :
            Finish(s, s, "gmcp_message", clid \in DOMAIN clients)

MxpSecure ==
    /\ last = Idle
    /\ \E clid \in Ids, message \in Messages :
        \E s \in {mxp_secure(Start, clid, message, 1)} :
            Finish(s, s, "mxp_secure", clid \in DOMAIN clients)

RemoteEcho ==
    /\ last = Idle
    /\ \E clid \in Ids, enable \in BOOLEAN :
        \E s \in {remote_echo(Start, clid, enable)} :
            Finish(s, s, "remote_echo", clid \in DOMAIN clients)

DisconnectPlayer ==
    /\ last = Idle
    /\ \E clid \in Ids :
        \E s \in {disconnect_player(Start, clid)} :
            Finish(s, s, "disconnect_player", clid \in DOMAIN clients)

(***************************************************************************)
(* The caller goes on after a call: what the call returned or raised and   *)
(* what it wrote are dropped.  The next call, and every step of the        *)
(* environment, is taken from there.                                       *)
(***************************************************************************)
Return ==
    /\ last # Idle
    /\ last' = Idle
    /\ sent' = <<>>
    /\ sinceUpdate' = IF Returned(last) THEN <<>> ELSE sinceUpdate
    /\ UNCHANGED <<clients, nextid, events, new_events, now, nconn, naccepted,
                   peer, newCount, leftCount, connId>>
    /\ UNCHANGED pvars

(***************************************************************************)
(* The environment: peers and the clock.                                   *)
(***************************************************************************)
Live == {c \in 1 .. nconn : peer[c] # "gone"}

EnvFrame ==
    /\ UNCHANGED <<clients, nextid, events, new_events, naccepted, last, sent,
                   sinceUpdate, newCount, leftCount, connId>>
    /\ UNCHANGED pvars

Connect ==
    /\ last = Idle
    /\ nconn < MaxConn
    /\ Cardinality(Live) < MaxLive
    /\ nconn' = nconn + 1
    /\ peer' = [peer EXCEPT ![nconn + 1] = "open"]
    /\ UNCHANGED now
    /\ EnvFrame

PeerStall ==
    /\ last = Idle
    /\ \E c \in 1 .. nconn :
        /\ peer[c] = "open"
        /\ peer' = [peer EXCEPT ![c] = "stalled"]
        /\ UNCHANGED <<now, nconn>>
        /\ EnvFrame

PeerResume ==
    /\ last = Idle
    /\ \E c \in 1 .. nconn :
        /\ peer[c] = "stalled"
        /\ peer' = [peer EXCEPT ![c] = "open"]
        /\ UNCHANGED <<now, nconn>>
        /\ EnvFrame

PeerClose ==
    /\ last = Idle
    /\ \E c \in 1 .. nconn :
        /\ peer[c] \in {"open", "stalled"}
        /\ peer' = [peer EXCEPT ![c] = "fin"]
        /\ UNCHANGED <<now, nconn>>
        /\ EnvFrame

PeerReset ==
    /\ last = Idle
    /\ \E c \in 1 .. nconn :
        /\ peer[c] \in {"open", "stalled", "fin"}
        /\ peer' = [peer EXCEPT ![c] = "reset"]
        /\ UNCHANGED <<now, nconn>>
        /\ EnvFrame

Tick ==
    /\ last = Idle
    /\ now + ProbeInterval <= MaxTime
    /\ now' = now + ProbeInterval
    /\ UNCHANGED <<nconn, peer>>
    /\ EnvFrame

Next ==
    \/ Update
    \/ GetNewPlayers
    \/ GetDisconnectedPlayers
    \/ GetCommands
    \/ SendMessage
    \/ SendRoom
    \/ SendList
    \/ GmcpMessage
    \/ MxpSecure
    \/ RemoteEcho
    \/ DisconnectPlayer
    \/ Return
    \/ Connect
    \/ PeerStall
    \/ PeerResume
    \/ PeerClose
    \/ PeerReset
    \/ Tick

Spec == Init /\ [][Next]_vars

(***************************************************************************)
(* Connection bursts: peers connect faster than update() is called, so     *)
(* several connections wait on the listening socket.                       *)
(***************************************************************************)
ConnectBurst ==
    /\ last = Idle
    /\ nconn < MaxConn
    /\ nconn' = nconn + 1
    /\ peer' = [peer EXCEPT ![nconn + 1] = "open"]
    /\ UNCHANGED now
    /\ EnvFrame

AcceptNext ==
    \/ Update
    \/ Return
    \/ ConnectBurst
    \/ PeerReset
    \/ PeerStall
    \/ Tick

AcceptSpec == Init /\ [][AcceptNext]_vars

(***************************************************************************)
(* The liveness check under a clock that advances second by second, with   *)
(* several peers connected at once; the peers send nothing.                *)
(***************************************************************************)
\* no socket has data to read
Silence == [i \in DOMAIN clients \cup {nextid} |-> <<>>]

UpdateInSilence ==
    /\ last = Idle
    /\ \E s \in {update(Start, Silence)}, w \in {UpdateChecks(Start, Silence)} :
           Finish(s, w, "update", FALSE)

TickOne ==
    /\ last = Idle
    /\ now < 2 * MaxTime
    /\ now' = now + 1
    /\ UNCHANGED <<nconn, peer>>
    /\ EnvFrame

ProbeNext ==
    \/ UpdateInSilence
    \/ Return
    \/ ConnectBurst
    \/ PeerStall
    \/ TickOne

ProbeSpec == Init /\ [][ProbeNext]_vars

(***************************************************************************)
(* The byte-stream scenarios.  The registry holds one to MaxConn clients   *)
(* whose peers are open.  Client 0 is as accepted, or has had a window     *)
(* size reported; its peer sends one script (a line of text, a             *)
(* negotiation, a window-size report), and each recv of the read-check     *)
(* returns the next one or more bytes of it.  Nothing but update() is      *)
(* called here.                                                            *)
(***************************************************************************)
\* "Hi x\n"
TextLine == <<72, 105, 32, 120, Newline>>
\* "hi", a backspace, "\n"
ErasedLine == <<104, 105, Backspace, Newline>>
\* a backspace, "h\n"
ErasedNothing == <<Backspace, 104, Newline>>
\* "a\nb\n"
TwoLines == <<97, Newline, 98, Newline>>
DoMxp == <<_TN_IAC, _TN_DO, _MXP>>
WillMxpSubneg ==
    <<_TN_IAC, _TN_WILL, _MXP, _TN_IAC, _TN_SUB_START, _MXP, _TN_IAC,
      _TN_SUB_END>>
WontMxp == <<_TN_IAC, _TN_WONT, _MXP>>
\* the two 16-bit values 80 and 24
NawsReport ==
    <<_TN_IAC, _TN_SUB_START, _NAWS, 0, 80, 0, 24, _TN_IAC, _TN_SUB_END>>
\* a payload of three bytes
NawsShort == <<_TN_IAC, _TN_SUB_START, _NAWS, 0, 80, 0, _TN_IAC, _TN_SUB_END>>
\* a payload of five bytes
NawsLong ==
    <<_TN_IAC, _TN_SUB_START, _NAWS, 0, 40, 0, 12, 0, _TN_IAC, _TN_SUB_END>>
DoMssp == <<_TN_IAC, _TN_DO, _MSSP>>
WillMssp == <<_TN_IAC, _TN_WILL, _MSSP>>


Verbs == {_TN_WILL, _TN_WONT, _TN_DO, _TN_DONT}
\* IAC, a verb and an option code
Negotiation(v, o) == <<_TN_IAC, v, o>>
\* one negotiation of MXP, GMCP or ECHO, with a verb or with none; and the
\* same behind a character of text and a DO of the other option
NegotiationScripts ==
    {Negotiation(v, o) : v \in Verbs, o \in {_MXP, _GMCP, _ECHO}}
    \cup {<<_TN_IAC, _MXP>>, <<_TN_IAC, _GMCP>>}
    \cup {<<104>> \o Negotiation(_TN_DO, _GMCP) \o Negotiation(v, _MXP) :
               v \in {_TN_DO, _TN_WONT}}
    \cup {<<104>> \o Negotiation(_TN_DO, _MXP) \o Negotiation(v, _GMCP) :
               v \in {_TN_DO, _TN_WONT}}
    \cup {<<104>> \o Negotiation(_TN_DO, _MXP) \o Negotiation(_TN_WILL, _ECHO)}

\* IAC SB NAWS, the two 16-bit values sent high byte first, IAC SE
Naws(a_hi, a_lo, b_hi, b_lo) ==
    <<_TN_IAC, _TN_SUB_START, _NAWS, a_hi, a_lo, b_hi, b_lo, _TN_IAC,
      _TN_SUB_END>>
\* reports with a zero or a negative value: 0, -32768 and -14335
NawsZeroFirst == Naws(0, 0, 0, 24)
NawsZeroSecond == Naws(0, 80, 0, 0)
NawsNegativeFirst == Naws(128, 0, 0, 24)
NawsNegativeSecond == Naws(0, 80, 200, 1)
\* reports of positive values whose bytes are option or command codes:
\* 240 and 24, 31 and 24, and 255 and 24 with the 255 doubled
NawsWith240 == Naws(0, _TN_SUB_END, 0, 24)
NawsWith31 == Naws(0, _NAWS, 0, 24)
NawsWith255 ==
    <<_TN_IAC, _TN_SUB_START, _NAWS, 0, _TN_IAC, _TN_IAC, 0, 24, _TN_IAC,
      _TN_SUB_END>>
NawsScripts ==
    { NawsZeroFirst, NawsZeroSecond, NawsNegativeFirst, NawsNegativeSecond,
      NawsWith240, NawsWith31, NawsWith255 }

\* lines of white space only: a space, and the carriage return of an empty
\* line ended CR LF
BlankSpace == <<32, Newline>>
BlankCrlf == <<13, Newline>>

Scripts ==
    { TextLine, ErasedLine, ErasedNothing, TwoLines, DoMxp \o WontMxp,
      WillMxpSubneg, NawsReport, NawsShort, NawsLong, DoMssp, WillMssp,
      BlankSpace, BlankCrlf }
    \cup NegotiationScripts \cup NawsScripts

Platforms == {"linux", "esp32"}

\* a client after one recv returned the window-size report 100, 30
Reported(cl) ==
    _process_sent_data(cl, <<_TN_IAC, _TN_SUB_START, _NAWS, 0, 100, 0, 30,
                             _TN_IAC, _TN_SUB_END>>, TRUE, 1, 0).cl

StreamInit ==
    /\ platform \in Platforms
    /\ \E n \in 1 .. MaxConn :
        /\ now \in {0, MaxTime}
        /\ \E first \in {NewClient(1, now), Reported(NewClient(1, now))} :
            /\ clients = [i \in 0 .. n - 1 |->
                             IF i = 0 THEN first ELSE NewClient(i + 1, now)]
            /\ atBegin = first
        /\ nextid = n
        /\ nconn = n
        /\ naccepted = n
        /\ peer = [c \in Conns |-> IF c <= n THEN "open" ELSE "none"]
        /\ newCount = [i \in Ids |-> IF i < n THEN 1 ELSE 0]
        /\ connId = [k \in 1 .. n |-> k - 1]
    /\ events = <<>>
    /\ new_events = <<>>
    /\ last = Idle
    /\ sent = <<>>
    /\ sinceUpdate = <<>>
    /\ leftCount = [i \in Ids |-> 0]
    /\ script \in Scripts
    /\ pos = 0
    /\ fed = <<>>
    /\ lastMessage = NoMessage
    /\ cmds = <<>>
    /\ replies = <<>>
    /\ args = NoArgs
    /\ closed = {}
    /\ halted = FALSE

\* what each client's recv returns when client 0 receives chunk
Arrives(chunk) ==
    [i \in DOMAIN clients \cup {nextid} |-> IF i = 0 THEN chunk ELSE <<>>]

\* update() while the next k bytes of the script wait at client 0
Recv ==
    /\ pos < Len(script)
    /\ 0 \in DOMAIN clients
    /\ \E k \in 1 .. Len(script) - pos :
        \E chunk \in {SubSeq(script, pos + 1, pos + k)} :
        \E s \in {update(Start, Arrives(chunk))},
           w \in {UpdateChecks(Start, Arrives(chunk))} :
            /\ FinishServer(s, w, "update", FALSE)
            /\ pos' = pos + k
            /\ fed' = chunk
            /\ lastMessage' =
                   _process_sent_data(clients[0], chunk,
                                      SendOk(clients[0].sock),
                                      Cardinality(DOMAIN clients), now).message
            /\ cmds' = cmds \o get_commands(s.events)
            /\ replies' = replies \o [j \in 1 .. Len(s.sent) |-> s.sent[j].data]
    /\ UNCHANGED <<platform, script, atBegin, args, closed, halted>>

StreamNext == Recv

StreamSpec == StreamInit /\ [][StreamNext]_vars

\* the same script delivered to the same client by a single recv
OneRead ==
    _process_sent_data(atBegin, script, TRUE, Cardinality(DOMAIN clients), now)

\* the Command events of an update() whose recv returns the whole script
OneReadCommands ==
    LET s0 == [Start EXCEPT !.clients = With(@, 0, atBegin),
                            !.new_events = <<>>]
    IN get_commands(update(s0, Arrives(script)).events)

(***************************************************************************)
(* Properties.                                                             *)
(***************************************************************************)
\* the sum of f[0] .. f[n]
RECURSIVE Total(_, _)
Total(f, n) == IF n < 0 THEN 0 ELSE f[n] + Total(f, n - 1)


\* C1: after an update() that returns, the visible list is exactly the
\* events enqueued since the previous update() returned, in the order they
\* were enqueued (it replaces the previous visible list), and the pending
\* list is empty.
C1_UpdatePublishesPending ==
    Returned(last) => (events = sinceUpdate /\ new_events = <<>>)

\* C1 happens: an update() returned and published a Disconnected event that
\* was enqueued before it was called, followed by the NewConnection event of
\* the connection it accepted.
C1_Witness ==
    /\ Returned(last)
    /\ \E k \in 1 .. Len(events) - 1 :
           /\ events[k].type = _EVENT_PLAYER_LEFT
           /\ events[k + 1].type = _EVENT_NEW_PLAYER

\* C2: no step other than an update() that returns changes the visible
\* list: the queries, send_message, disconnect_player, remote_echo and the
\* other sending calls leave it as it is (what they enqueue goes to the
\* pending list), so a repeated query returns the same result.
C2_VisibleStableBetweenUpdates ==
    [][(~Returned(last')) =>
          /\ events' = events
          /\ get_new_players(events') = get_new_players(events)
          /\ get_disconnected_players(events') = get_disconnected_players(events)
          /\ get_commands(events') = get_commands(events)]_vars

\* C2 happens: send_message to a registered client failed and enqueued a
\* Disconnected event while the visible list was not empty.
C2_Witness ==
    /\ last.op = "send_message"
    /\ last.known
    /\ last.raised = "none"
    /\ sent = <<>>
    /\ new_events # <<>>
    /\ events # <<>>

\* C3: each accepted connection yields exactly one NewConnection event: at
\* every point there are as many NewConnection events enqueued as there are
\* connections accepted, and an update() that returns shows at most the one
\* NewConnection event of the connection it accepted.
C3_OneNewConnectionPerAccept ==
    /\ Total(newCount, MaxConn) = Len(connId)
    /\ Returned(last) => Len(get_new_players(events)) <= 1

\* C4: for every identifier at most one Disconnected event is ever enqueued.
C4_AtMostOneDisconnected == \A i \in Ids : leftCount[i] <= 1

\* C5: an identifier is in the registry exactly when a NewConnection event
\* has been enqueued for it and no Disconnected event has.
C5_RegistryMatchesEvents ==
    \A i \in Ids : (i \in DOMAIN clients) <=> (newCount[i] > 0 /\ leftCount[i] = 0)

\* C6: no two accepted connections ever receive the same identifier.
C6_IdentifiersNeverReused ==
    \A a, b \in 1 .. Len(connId) : a # b => connId[a] # connId[b]

\* C7: a connection whose read returns no bytes (its peer closed) is removed
\* from the registry in that same update(): after an update() that returns,
\* no registered client has a peer that closed.
C7_ZeroReadDisconnects ==
    Returned(last) => \A i \in DOMAIN clients : peer[clients[i].sock] # "fin"

\* C8: send_message with an identifier that is not in the registry raises
\* nothing and sends nothing, with or without a colour directive.
C8_SendMessageUnknownIsNoOp ==
    (last.op = "send_message" /\ ~last.known) =>
        (last.raised = "none" /\ sent = <<>>)

\* C9: send_room, send_list, gmcp_message, mxp_secure and remote_echo with
\* an identifier that is not in the registry raise nothing and send nothing.
C9_SendersUnknownAreNoOps ==
    (/\ last.op \in {"send_room", "send_list", "gmcp_message", "mxp_secure",
                     "remote_echo"}
     /\ ~last.known) =>
        (last.raised = "none" /\ sent = <<>>)

\* C10: when the write of send_message, gmcp_message or mxp_secure to a
\* registered client fails, nothing is raised and a Disconnected event is
\* enqueued (the client is removed).
C10_SendFailureDisconnects ==
    (/\ last.op \in {"send_message", "gmcp_message", "mxp_secure"}
     /\ last.known
     /\ sent = <<>>) =>
        /\ last.raised = "none"
        /\ new_events # <<>>
        /\ new_events[Len(new_events)].type = _EVENT_PLAYER_LEFT


\* C11: a transport failure on one connection never raises out of update():
\* every call of update() returns.
C11_UpdateNeverRaises == last.op = "update" => last.raised = "none"

\* a line of text: no IAC byte, and one newline, at its end
IsLine(sc) ==
    /\ Len(sc) > 0
    /\ sc[Len(sc)] = Newline
    /\ \A k \in 1 .. Len(sc) - 1 : sc[k] \notin {Newline, _TN_IAC}

\* C12: when the bytes of a line of text have all been read, in whatever
\* pieces the reads returned them, the completed message, the Command events
\* and the client are those of a single read of the whole line, and there is
\* one Command event.
C12_LineSplitAnywhereSameMessage ==
    (IsLine(script) /\ pos = Len(script)) =>
        /\ lastMessage = OneRead.message
        /\ cmds = OneReadCommands
        /\ Len(cmds) = 1
        /\ clients[0] = OneRead.cl

\* C12 happens: "Hi x\n" arrived in pieces, the newline alone in the last
\* read, and the command ("hi", "x") of client 0 was published.
C12_Witness ==
    /\ script = TextLine
    /\ pos = Len(script)
    /\ fed = <<Newline>>
    /\ cmds = << <<0, <<104, 105>>, <<120>>>> >>

\* C13: when the bytes of a script have all been read, in whatever pieces,
\* the client (flags, dimensions, line buffer) and the replies written to it
\* are those of a single read of the whole script.
C13_ParserStateKeptAcrossReads ==
    pos = Len(script) =>
        /\ clients[0] = OneRead.cl
        /\ replies = OneRead.sent

\* the first k with sc[k] = Newline (sc holds one)
FirstNewline(sc) ==
    CHOOSE k \in 1 .. Len(sc) : sc[k] = Newline /\ \A j \in 1 .. k - 1 : sc[j] # Newline

\* flags and dimensions of a client
Capabilities(cl) == <<cl.MXP, cl.GMCP, cl.height, cl.width>>

\* C14: the first read of a client with an empty line buffer, returning
\* bytes without IAC (and without a backspace, which erases) that hold a
\* newline, yields as message exactly the bytes before the first newline,
\* changes no flag or dimension and sends no reply.
C14_PlainTextMessageIsFirstLine ==
    (/\ fed # <<>>
     /\ pos = Len(fed)
     /\ \A k \in 1 .. Len(fed) : fed[k] \notin {_TN_IAC, Backspace}
     /\ \E k \in 1 .. Len(fed) : fed[k] = Newline) =>
        /\ lastMessage = [has |-> TRUE, text |-> SubSeq(fed, 1, FirstNewline(fed) - 1)]
        /\ Capabilities(clients[0]) = Capabilities(atBegin)
        /\ replies = <<>>

\* C15: a read that returns one backspace byte removes the last character
\* of the client's line buffer (none when the buffer is empty) and changes
\* nothing else: no message, no event, no reply, no flag; and a backspace
\* inside a line erases the one character before it.
C15_BackspaceRemovesLastCharacter ==
    [][/\ fed' = <<Backspace>> =>
            /\ clients'[0] =
                   [clients[0] EXCEPT !.buffer =
                        IF @ = <<>> THEN <<>> ELSE SubSeq(@, 1, Len(@) - 1)]
            /\ lastMessage' = NoMessage
            /\ sent' = <<>>
            /\ events' = <<>>
       /\ (script' = ErasedLine /\ pos' = Len(script')) =>
              lastMessage' = [has |-> TRUE, text |-> <<104>>]
       /\ (script' = ErasedNothing /\ pos' = Len(script')) =>
              lastMessage' = [has |-> TRUE, text |-> <<104>>]]_vars

\* C15 happens: "hi" was in the line buffer when a read returned the
\* backspace alone, and "h" is left.
C15_Witness ==
    /\ script = ErasedLine
    /\ fed = <<Backspace>>
    /\ clients[0].buffer = <<104>>

\* C16 as stated: after a read returned IAC WILL MXP and the MXP
\* subnegotiation, the client's MXP flag is enabled.
C16_WillMxpEnables ==
    (script = WillMxpSubneg /\ fed = script) => clients[0].MXP = FlagOn

\* C16 amended: a read that returns IAC DO MXP sets the MXP flag to enabled,
\* changes nothing else of the client and writes IAC SB MXP IAC SE to it; a
\* read that returns IAC WONT MXP, or IAC WILL MXP and the MXP
\* subnegotiation, sets the flag to disabled, changes nothing else and
\* writes nothing.
C16_DoMxpEnablesWontDisables ==
    [][/\ fed' = DoMxp =>
            /\ clients'[0] = [clients[0] EXCEPT !.MXP = FlagOn]
            /\ sent' = << [sock |-> clients[0].sock,
                           data |-> <<_TN_IAC, _TN_SUB_START, _MXP,
                                      _TN_IAC, _TN_SUB_END>>] >>
       /\ fed' \in {WontMxp, WillMxpSubneg} =>
            /\ clients'[0] = [clients[0] EXCEPT !.MXP = FlagOff]
            /\ sent' = <<>>]_vars

\* C16 happens: IAC DO MXP enabled the flag in one read and IAC WONT MXP
\* disabled it in the next.
C16_Witness ==
    /\ script = DoMxp \o WontMxp
    /\ fed = WontMxp
    /\ clients[0].MXP = FlagOff
    /\ Len(replies) = 1

\* C17: after a read returned the window-size report with the values 80 and
\* 24, the client's width is 80 and its height 24.
C17_NawsWidthThenHeight ==
    (script = NawsReport /\ fed = script) =>
        (clients[0].width = 80 /\ clients[0].height = 24)

\* C18: after a read returned a window-size report whose payload is not four
\* bytes long, nothing was raised, the client's dimensions are those it had
\* and no event was enqueued.
C18_MalformedNawsIgnored ==
    (script \in {NawsShort, NawsLong} /\ fed = script) =>
        /\ last.raised = "none"
        /\ clients[0].height = atBegin.height
        /\ clients[0].width = atBegin.width
        /\ events = <<>>
        /\ new_events = <<>>

\* sub occurs in seq as a run of consecutive elements
Contains(seq, sub) ==
    \E k \in 0 .. Len(seq) - Len(sub) : SubSeq(seq, k + 1, k + Len(sub)) = sub

\* C19: a read that returns IAC DO MSSP makes the server write one reply to
\* that client: IAC SB MSSP, then VAR "PLAYERS" VAL and the number of
\* clients in the registry followed by VAR "UPTIME" VAL, then a VAR "NAME"
\* VAL pair, then IAC SE.  A read that returns IAC WILL MSSP writes nothing.
\* Either way the parser is back in the normal state and the client is
\* unchanged.
C19_DoMsspRepliesWithPlayerCount ==
    [][/\ fed' = DoMssp =>
            /\ Len(sent') = 1
            /\ sent'[1].sock = clients[0].sock
            /\ SubSeq(sent'[1].data, 1, 4) =
                   <<_TN_IAC, _TN_SUB_START, _MSSP, _MSSP_VAR>>
            /\ Contains(sent'[1].data,
                        <<_MSSP_VAR, 80, 76, 65, 89, 69, 82, 83, _MSSP_VAL,
                          48 + Cardinality(DOMAIN clients),
                          _MSSP_VAR, 85, 80, 84, 73, 77, 69, _MSSP_VAL>>)
            /\ Contains(sent'[1].data, <<_MSSP_VAR, 78, 65, 77, 69, _MSSP_VAL>>)
            /\ SubSeq(sent'[1].data, Len(sent'[1].data) - 1, Len(sent'[1].data)) =
                   <<_TN_IAC, _TN_SUB_END>>
            /\ clients'[0] = clients[0]
            /\ _process_sent_data(clients[0], DoMssp, TRUE, 1, 0).state =
                   _READ_STATE_NORMAL
       /\ fed' = WillMssp =>
            /\ sent' = <<>>
            /\ clients'[0] = clients[0]
            /\ _process_sent_data(clients[0], WillMssp, TRUE, 1, 0).state =
                   _READ_STATE_NORMAL]_vars

\* C19 happens: with two clients in the registry a read returned IAC DO MSSP
\* and a reply was written.
C19_Witness ==
    /\ fed = DoMssp
    /\ Cardinality(DOMAIN clients) = 2
    /\ Len(replies) = 1

\* C20: an update() called while connections wait on the listening socket
\* accepts exactly one of them, gives it the next identifier, writes the
\* four negotiation requests to it and enqueues one NewConnection event for
\* it; an update() called while none waits accepts none.
C20_OneAcceptPerUpdate ==
    [][(last = Idle /\ last'.op = "update") =>
          IF naccepted < nconn
          THEN /\ naccepted' = naccepted + 1
               /\ connId' = Append(connId, nextid)
               /\ nextid' = nextid + 1
               /\ newCount' = [newCount EXCEPT ![nextid] = @ + 1]
               /\ Len(sent') >= 4
               /\ \A k \in 1 .. 4 :
                      sent'[k] = [sock |-> naccepted + 1,
                                  data |-> NegotiationRequests[k]]
          ELSE /\ naccepted' = naccepted
               /\ newCount' = newCount]_vars

\* the accept-check of the next update() stores a new client under i
Replaced(i) == naccepted < nconn /\ i = nextid

\* client i is due for a probe in the next update()
Due(i) ==
    /\ i \in DOMAIN clients
    /\ ~Replaced(i)
    /\ now - clients[i].lastcheck >= ProbeInterval

\* how many probe bytes a call wrote to socket c
Probes(out, c) ==
    Cardinality({k \in 1 .. Len(out) : out[k] = [sock |-> c, data |-> <<0>>]})

\* C26: in an update() that returns, a registered client is sent the probe
\* byte exactly when five seconds or more have passed since its last check
\* (at first the time it was accepted).  A probe that is written sets the
\* last check to the current time; a probe that fails removes the client
\* and enqueues one Disconnected event; a client that is not due is left as
\* it is.
C26_ProbedWhenFiveSecondsPassed ==
    [][(last = Idle /\ Returned(last')) =>
          \A i \in DOMAIN clients :
              LET c == clients[i].sock
                  left == CountOf(SubSeq(events', Len(new_events) + 1, Len(events')),
                                  _EVENT_PLAYER_LEFT, i)
              IN Replaced(i) \/
                 IF now - clients[i].lastcheck >= 5
                 THEN IF SendOk(c)
                      THEN /\ Probes(sent', c) = 1
                           /\ i \in DOMAIN clients'
                           /\ clients'[i].lastcheck = now
                           /\ left = 0
                      ELSE /\ Probes(sent', c) = 0
                           /\ i \notin DOMAIN clients'
                           /\ left = 1
                 ELSE /\ Probes(sent', c) = 0
                      /\ i \in DOMAIN clients'
                      /\ clients'[i].lastcheck = clients[i].lastcheck
                      /\ left = 0]_vars

\* C26 happens: an update() returned in which one of two clients was probed
\* and the other, checked less than five seconds before, was not.
C26_Witness ==
    /\ Returned(last)
    /\ \E i, j \in DOMAIN clients :
           /\ Probes(sent, clients[i].sock) = 1
           /\ clients[i].lastcheck = now
           /\ Probes(sent, clients[j].sock) = 0
           /\ clients[j].lastcheck \in {now - 4, now - 1}

\* the place of an event in the order of the checks of one update(): the
\* accept-check, the liveness-check, the read-check
Phase(e) ==
    IF e.type = _EVENT_NEW_PLAYER THEN 1
    ELSE IF e.type = _EVENT_PLAYER_LEFT /\ Due(e.id) /\ ~SendOk(clients[e.id].sock)
    THEN 2
    ELSE 3

\* C27: among the events an update() that returns has enqueued, the
\* NewConnection event comes first, then the Disconnected events of failed
\* probes, then the Command events and the Disconnected events of failed
\* reads; a client whose probe failed has one Disconnected event and no
\* Command event there (it is not read).
C27_EventsInPhaseOrder ==
    [][(last = Idle /\ Returned(last')) =>
          LET app == SubSeq(events', Len(new_events) + 1, Len(events'))
          IN /\ \A p, q \in 1 .. Len(app) : p < q => Phase(app[p]) <= Phase(app[q])
             /\ \A i \in DOMAIN clients :
                    (Due(i) /\ ~SendOk(clients[i].sock)) =>
                        /\ CountOf(app, _EVENT_PLAYER_LEFT, i) = 1
                        /\ CountOf(app, _EVENT_COMMAND, i) = 0]_vars

\* C27 happens: one update() accepted a connection, removed a client whose
\* probe failed and read a command of the connection it had just accepted.
C27_Witness ==
    /\ Returned(last)
    /\ Len(events) = 3
    /\ events[1].type = _EVENT_NEW_PLAYER
    /\ events[2].type = _EVENT_PLAYER_LEFT
    /\ events[3].type = _EVENT_COMMAND
    /\ events[3].id = events[1].id
    /\ events[2].id # events[1].id

\* C23: every registered client has a height and a width and its MXP and
\* GMCP flags are enabled or disabled, so send_room and send_list to a
\* registered client never stop at a missing attribute.
C23_DefaultsFromAccept ==
    /\ \A i \in DOMAIN clients :
           /\ clients[i].MXP \in {FlagOn, FlagOff}
           /\ clients[i].GMCP \in {FlagOn, FlagOff}
           /\ clients[i].height # DimUnset
           /\ clients[i].width # DimUnset
    /\ (last.op \in {"send_room", "send_list"} /\ last.known) =>
           last.raised # "AttributeError"

\* a NewConnection event for i was published by an earlier update()
AnnouncedEarlier(i) ==
    newCount[i] > CountOf(events, _EVENT_NEW_PLAYER, i)
                  + CountOf(new_events, _EVENT_NEW_PLAYER, i)

\* C30: every Command or Disconnected event in the visible list is for an
\* identifier whose NewConnection event was published before, or stands
\* before it in the list.
C30_AnnouncedBeforeAnyEvent ==
    \A k \in 1 .. Len(events) :
        events[k].type # _EVENT_NEW_PLAYER =>
            \/ AnnouncedEarlier(events[k].id)
            \/ \E j \in 1 .. k - 1 :
                   events[j].type = _EVENT_NEW_PLAYER /\ events[j].id = events[k].id

\* the bytes the server wrote in the step
Written == SubSeq(replies', Len(replies) + 1, Len(replies'))
\* the state the parser is in after the read of the step
StateAfter ==
    _process_sent_data(clients[0], fed', SendOk(clients[0].sock),
                       Cardinality(DOMAIN clients), now).state
Flag(cl, o) == IF o = _MXP THEN cl.MXP ELSE cl.GMCP

\* C24: a read holding IAC, a verb and the MXP or GMCP option code, or IAC
\* and the option code alone: with the verb DO the option's flag becomes
\* enabled and the one sequence IAC SB MXP IAC SE is written to the client,
\* for MXP and for GMCP alike; with WILL, WONT, DONT or no verb the flag
\* becomes disabled and nothing is written.  The parser is in normal state
\* afterwards.
C24_DoEnablesAndRepliesElseDisables ==
    [][\A o \in {_MXP, _GMCP} :
         /\ \A v \in Verbs :
              fed' = Negotiation(v, o) =>
                  /\ StateAfter = _READ_STATE_NORMAL
                  /\ IF v = _TN_DO
                     THEN /\ Flag(clients'[0], o) = FlagOn
                          /\ Written = << <<255, 250, 91, 255, 240>> >>
                     ELSE /\ Flag(clients'[0], o) = FlagOff
                          /\ Written = <<>>
         /\ fed' = <<_TN_IAC, o>> =>
                /\ StateAfter = _READ_STATE_NORMAL
                /\ Flag(clients'[0], o) = FlagOff
                /\ Written = <<>>]_vars

\* C24 happens: IAC DO GMCP was read whole; GMCP is enabled and the
\* enabling sequence, which names MXP, is the one thing written
C24_Witness ==
    /\ fed = Negotiation(_TN_DO, _GMCP)
    /\ pos = 3
    /\ clients[0].GMCP = FlagOn
    /\ replies = << <<255, 250, 91, 255, 240>> >>

\* C25: a read holding one MXP negotiation changes nothing of the registry
\* but client 0's MXP flag (its GMCP flag, height, width and line buffer and
\* every other client stay), one GMCP negotiation nothing but the GMCP flag,
\* one ECHO negotiation nothing at all; the update() then publishes what was
\* pending and enqueues no event.
C25_NegotiationChangesOnlyItsFlag ==
    [][\A v \in Verbs :
         /\ fed' = Negotiation(v, _MXP) =>
                /\ clients' = [clients EXCEPT ![0].MXP = clients'[0].MXP]
                /\ events' = new_events /\ new_events' = <<>>
         /\ fed' = Negotiation(v, _GMCP) =>
                /\ clients' = [clients EXCEPT ![0].GMCP = clients'[0].GMCP]
                /\ events' = new_events /\ new_events' = <<>>
         /\ fed' = Negotiation(v, _ECHO) =>
                /\ clients' = clients
                /\ events' = new_events /\ new_events' = <<>>
                /\ Written = <<>>]_vars

\* C25 happens: with text in the line buffer, the window size reported and
\* GMCP enabled, an MXP negotiation was read; the buffer, the dimensions and
\* the GMCP flag are as before
C25_Witness ==
    /\ fed = Negotiation(_TN_WONT, _MXP)
    /\ pos = 7
    /\ clients[0].MXP = FlagOff
    /\ clients[0].GMCP = FlagOn
    /\ clients[0].buffer = <<104>>
    /\ clients[0].height = 100
    /\ clients[0].width = 30
    /\ Cardinality(DOMAIN clients) = 2

\* the two values of a nine-byte window-size report read as unsigned
FirstValue(sc) == sc[4] * 256 + sc[5]
SecondValue(sc) == sc[6] * 256 + sc[7]
\* zero, or negative when read as a signed 16-bit value
NonPositive(u) == u = 0 \/ u >= 32768

\* C28: after a four-byte window-size report read whole, a value that is
\* zero or, as a signed 16-bit value, negative (32768 or more unsigned)
\* leaves its dimension as it was before the read (the
\* first value is the height's, the second the width's, as the code unpacks
\* them), and the positive value of the same report is stored in its own.
C28_NonPositiveValueKeepsDimension ==
    (/\ script \in {NawsZeroFirst, NawsZeroSecond, NawsNegativeFirst,
                   NawsNegativeSecond, NawsReport}
     /\ fed = script) =>
        /\ clients[0].height = IF NonPositive(FirstValue(script))
                               THEN atBegin.height ELSE FirstValue(script)
        /\ clients[0].width = IF NonPositive(SecondValue(script))
                              THEN atBegin.width ELSE SecondValue(script)

\* C28 happens: the report 80, -14335 was read by a client that had
\* reported 100, 30 before: the first dimension is 80, the second still 30
C28_Witness ==
    /\ script = NawsNegativeSecond
    /\ fed = script
    /\ atBegin.height = 100
    /\ atBegin.width = 30
    /\ clients[0].height = 80
    /\ clients[0].width = 30

\* C29: after a well-formed report of two values between 1 and 32767 read
\* whole, the two values are the client's two dimensions, the line buffer is
\* as before and the parser is in normal state; the values 240, 31 and 255
\* (its byte doubled) included.
C29_AnyPositivePairIsStored ==
    \A sc \in {NawsReport, NawsWith240, NawsWith31, NawsWith255} :
        (script = sc /\ fed = script) =>
            LET a == IF sc = NawsReport THEN 80
                     ELSE IF sc = NawsWith240 THEN 240
                     ELSE IF sc = NawsWith31 THEN 31 ELSE 255
            IN /\ {clients[0].height, clients[0].width} = {a, 24}
               /\ clients[0].buffer = atBegin.buffer
               /\ OneRead.state = _READ_STATE_NORMAL

(***************************************************************************)
(* Wrapping: send_message called with messages longer than one chunk and   *)
(* with either line ending, to clients already registered.                 *)
(***************************************************************************)
\* a text of n lower-case letters
Text(n) == [k \in 1 .. n |-> 97 + (k % 26)]
Lengths == {0, 1, 80, 90, 161}
LineEndings == {CRLF, <<Newline>>}

SendInit ==
    /\ \E n \in 1 .. MaxConn :
        /\ clients = [i \in 0 .. n - 1 |-> NewClient(i + 1, 0)]
        /\ nextid = n
        /\ nconn = n
        /\ naccepted = n
        /\ peer = [c \in Conns |-> IF c <= n THEN "open" ELSE "none"]
        /\ newCount = [i \in Ids |-> IF i < n THEN 1 ELSE 0]
        /\ connId = [k \in 1 .. n |-> k - 1]
    /\ now = 0
    /\ events = <<>>
    /\ new_events = <<>>
    /\ last = Idle
    /\ sent = <<>>
    /\ sinceUpdate = <<>>
    /\ leftCount = [i \in Ids |-> 0]
    /\ platform = "linux"
    /\ script = <<>>
    /\ pos = 0
    /\ fed = <<>>
    /\ lastMessage = NoMessage
    /\ atBegin = NewClient(1, 0)
    /\ cmds = <<>>
    /\ replies = <<>>
    /\ \E n \in Lengths, e \in LineEndings, w \in BOOLEAN :
           args = [message |-> Text(n), line_ending |-> e, nowrap |-> w]
    /\ closed = {}
    /\ halted = FALSE

\* send_message(to, message, line_ending, nowrap=...) with the arguments drawn
SendWrapped ==
    /\ last = Idle
    /\ \E to \in Ids :
        \E s \in {send_message(Start, to, args.message, args.line_ending,
                               NoColor, args.nowrap)} :
            Finish(s, s, "send_message", to \in DOMAIN clients)

SendNext == SendWrapped \/ Return \/ PeerStall

SendSpec == SendInit /\ [][SendNext]_vars

(***************************************************************************)
(* shutdown.  socket.shutdown() is called without its argument, which      *)
(* raises at the first client, before any socket is closed; with no client *)
(* registered the loop is empty and the listening socket is closed.        *)
(***************************************************************************)
shutdown(s) ==
    IF DOMAIN s.clients # {} THEN [s EXCEPT !.raised = "TypeError"] ELSE s

\* the sockets closed once shutdown() has ended as s
ClosedAfter(s) ==
    IF s.raised # "none" THEN closed ELSE closed \cup {ListenSocket}

Shutdown ==
    /\ last = Idle
    /\ \E s \in {shutdown(Start)} :
        /\ FinishServer(s, s, "shutdown", FALSE)
        /\ closed' = ClosedAfter(s)
    /\ halted' = TRUE
    /\ UNCHANGED <<platform, script, pos, fed, lastMessage, atBegin, cmds,
                   replies, args>>

CloseNext ==
    \/ Update
    \/ Return
    \/ ConnectBurst
    \/ PeerClose
    \/ Shutdown

CloseSpec == Init /\ [][CloseNext]_vars

\* message cut into lines of 80 characters, each followed by the ending;
\* an empty message is the ending alone
RECURSIVE Wrapped(_, _)
Wrapped(message, ending) ==
    IF Len(message) <= 80 THEN message \o ending
    ELSE SubSeq(message, 1, 80) \o ending
         \o Wrapped(SubSeq(message, 81, Len(message)), ending)

\* C21: what send_message writes to a registered client begins, with
\* wrapping, with the ceil(L/80) chunks of the message, 80 characters each
\* but the last, every one followed by the caller's line ending (so joined
\* by it and ended by it); with nowrap, with the message and the line ending.
C21_ChunksJoinedByCallersLineEnding ==
    (last.op = "send_message" /\ last.known /\ sent # <<>>) =>
        LET data == sent[1].data
            expected == IF args.nowrap THEN args.message \o args.line_ending
                        ELSE Wrapped(args.message, args.line_ending)
        IN /\ Len(data) >= Len(expected)
           /\ SubSeq(data, 1, Len(expected)) = expected

\* C22: shutdown() returns with the socket of every registered client and
\* the listening socket closed; and once shutdown() has been called no
\* operation enqueues an event: the pending list only stays or is emptied,
\* the visible list only stays or takes the pending one.
C22_ShutdownClosesAllAndSilences ==
    [][/\ last'.op = "shutdown" =>
              /\ last'.raised = "none"
              /\ ListenSocket \in closed'
              /\ \A i \in DOMAIN clients : clients[i].sock \in closed'
       /\ halted =>
              /\ new_events' \in {new_events, <<>>}
              /\ events' \in {events, new_events}]_vars

\* the events the step enqueued
Enqueued == SubSeq(sinceUpdate', Len(sinceUpdate) + 1, Len(sinceUpdate'))

\* C31: no call enqueues a Command event for an identifier for which a
\* Disconnected event was enqueued before, by an earlier call or earlier in
\* the same update().
C31_NoCommandAfterDisconnected ==
    [][last = Idle =>
         \A k \in 1 .. Len(Enqueued) :
             Enqueued[k].type = _EVENT_COMMAND =>
                 /\ leftCount[Enqueued[k].id] = 0
                 /\ \A j \in 1 .. k - 1 :
                        ~(/\ Enqueued[j].type = _EVENT_PLAYER_LEFT
                          /\ Enqueued[j].id = Enqueued[k].id)]_vars

\* C32: when all the bytes of one or two non-blank lines have been read, in
\* whatever pieces, one Command event per line has been published for
\* client 0, in the order of the lines: ("hi", "x") for "Hi x\n", and
\* ("a", "") then ("b", "") for "a\nb\n".
C32_OneCommandPerLine ==
    /\ (script = TextLine /\ pos = Len(script)) =>
           cmds = << <<0, <<104, 105>>, <<120>>>> >>
    /\ (script = TwoLines /\ pos = Len(script)) =>
           cmds = << <<0, <<97>>, <<>>>>, <<0, <<98>>, <<>>>> >>

\* C33: no Command event, pending or visible, has an empty verb.
C33_NoCommandWithEmptyVerb ==
    \A k \in 1 .. Len(events) :
        events[k].type = _EVENT_COMMAND => events[k].command # <<>>

(***************************************************************************)
(* The game loop running for ever: update() is called again and again and  *)
(* returns to its caller, and the clock advances as long as it can.  A     *)
(* peer that has stalled stays so.  update() can be called exactly when no *)
(* call is under way, so weak fairness of UpdateInSilence is written with  *)
(* last = Idle in the place of ENABLED <<UpdateInSilence>>_vars.           *)
(***************************************************************************)
LiveNext ==
    \/ UpdateInSilence
    \/ Return
    \/ ConnectBurst
    \/ PeerStall
    \/ Tick

LiveSpec ==
    /\ Init
    /\ [][LiveNext]_vars
    /\ ([]<>(last # Idle) \/ []<><<UpdateInSilence>>_vars)
    /\ WF_vars(Return)
    /\ SF_vars(Tick)

\* connection c is registered, every send to it fails from now on, and the
\* clock can still advance by the probe interval
Dead(c) ==
    /\ Held(Start, c)
    /\ peer[c] = "stalled"
    /\ now + ProbeInterval <= MaxTime

\* the visible list of the next state holds a Disconnected event for the
\* identifier given to c
DisconnectedVisible(c) ==
    \E k \in 1 .. Len(events') :
        events'[k].type = _EVENT_PLAYER_LEFT /\ events'[k].id = connId[c]

\* C34: a registered connection to which every send fails is eventually out
\* of the registry, though no read on it raises, and the step that takes a
\* connection out of the registry leaves a Disconnected event for its
\* identifier in the visible list.
C34_DeadPeerEventuallyDisconnected ==
    /\ \A c \in Conns : Dead(c) ~> ~Held(Start, c)
    /\ [][\A c \in Conns :
             (Held(Start, c) /\ ~(\E i \in DOMAIN clients' : clients'[i].sock = c))
                 => DisconnectedVisible(c)]_vars
=============================================================================
